---------------------------- MODULE Spec2Model ----------------------------
(***************************************************************************)
(* FormProcessMapper: the form_process_mapper table and the model-layer    *)
(* operations of formsflow_api/models/form_process_mapper.py.              *)
(*                                                                         *)
(* The table is the state.  Mutations (create_from_dict, update,           *)
(* mark_inactive, mark_unpublished) are the actions; the read operations   *)
(* are pure functions of the table, the ambient tenant key and their       *)
(* arguments, and are operators.  A read whose SQL leaves the choice of    *)
(* row or the row order open (.first() without ORDER BY, an unsorted       *)
(* listing) is the set of the results the database may give.               *)
(***************************************************************************)
EXTENDS Integers, Sequences, FiniteSets, TLC

\* ------------------------------------------------------------------ bounds
\* Most rows the table holds (ids are 1..Len(rows): rows are never removed).
MaxRows == 2
\* Largest explicit page size and page number a caller passes.
MaxLimit == 1
MaxPage == 2

\* ------------------------------------------------------------ value domains
\* Python None / SQL NULL.
NULL == "NULL"
\* FormProcessMapperStatus.ACTIVE.value / .INACTIVE.value
ACTIVE == "active"
INACTIVE == "inactive"
\* column default of process_key
DEFAULT_PROCESS_KEY == "Defaultflow"

FormIds == {"F1", "F2"}
ParentIds == {"P1", "P2"}
TenantKeys == {"T1", "T2"}
Versions == {1, 2}
StatusValues == {ACTIVE, INACTIVE}
FormName == "Ab"
FormType == "form"

Min(a, b) == IF a < b THEN a ELSE b

\* dict.get(key): None when the key is absent.
get(d, k) == IF k \in DOMAIN d THEN d[k] ELSE NULL

\* The dict d without key k.
Drop(d, k) == [x \in (DOMAIN d) \ {k} |-> d[x]]

\* ------------------------------------------------------------------- state
VARIABLES
    rows,   \* the table: rows[i] is the row with id = i
    ret,    \* what the last mutation returned (or raised)
    logged  \* what the last mutation logged at critical severity, or NULL

vars == <<rows, ret, logged>>

\* The primary keys in the table; a query is the set of the keys of the rows
\* it selects.
Table == 1..Len(rows)
RowById(i) == rows[i]

\* What create_from_dict returns when it fails.
BadRequestResponse ==
    [kind |-> "error",
     response |-> [type |-> "Bad Request Error",
                   message |-> "Invalid application request passed"],
     status |-> "BAD_REQUEST"]

\* A method that returns nothing, one that returns the mapper it saved, one
\* that lets an exception out.
ReturnedNone == [kind |-> "none"]
ReturnedMapper(id) == [kind |-> "mapper", id |-> id]
Raised(e) == [kind |-> "raised", exc |-> e]

\* ------------------------------------------------------ the schema (29-58)
\* Columns declared nullable=False that the caller supplies.
NotNullColumns == {"form_id", "form_name", "form_type", "parent_form_id"}

\* UniqueConstraint("form_id", "version", "tenant"): two rows conflict when
\* their three columns are equal; a NULL in a constrained column never equals
\* anything (SQL unique constraints treat NULLs as distinct), and tenant is the
\* one nullable column of the three.
UniqueConflict(r, s) ==
    /\ r.form_id = s.form_id
    /\ r.version = s.version
    /\ r.tenant # NULL
    /\ s.tenant # NULL
    /\ r.tenant = s.tenant

\* INSERT/UPDATE of row r beside the rows with keys `others`: whether the
\* commit fails.
IntegrityError(r, others) ==
    \/ \E c \in NotNullColumns : r[c] = NULL
    \/ \E j \in others : UniqueConflict(r, rows[j])

\* ------------------------------------------------------------------- Init
Init ==
    /\ rows = <<>>
    /\ ret = ReturnedNone
    /\ logged = NULL

\* --------------------------------------------------- create_from_dict 60-89
RequiredKeys == {"form_id", "form_name", "form_type", "parent_form_id", "created_by"}

\* Lines 65-80: the mapper built from mapper_info; a required key that is
\* absent raises KeyError (mapper_info[...]), an optional one reads as None.
\* Column defaults apply to None on INSERT: version 1, deleted False,
\* process_key DEFAULT_PROCESS_KEY.
NewMapper(mapper_info, id) ==
    [id |-> id,
     form_id |-> mapper_info["form_id"],
     form_name |-> mapper_info["form_name"],
     form_type |-> mapper_info["form_type"],
     parent_form_id |-> mapper_info["parent_form_id"],
     process_key |-> IF get(mapper_info, "process_key") = NULL
                     THEN DEFAULT_PROCESS_KEY ELSE mapper_info["process_key"],
     status |-> get(mapper_info, "status"),
     tenant |-> get(mapper_info, "tenant"),
     deleted |-> FALSE,
     version |-> IF "version" \in DOMAIN mapper_info
                 THEN mapper_info["version"] ELSE 1]

\* The body of the try block: "none" when mapper_info is falsy (the if is
\* skipped), the exception raised, or "saved".
TryCreate(mapper_info, table, id) ==
    IF DOMAIN mapper_info = {} THEN "none"
    ELSE IF ~(RequiredKeys \subseteq DOMAIN mapper_info) THEN "KeyError"
    ELSE IF IntegrityError(NewMapper(mapper_info, id), table) THEN "IntegrityError"
    ELSE "saved"

\* A handler that catches the lookup errors only.
CaughtKeyErrorOnly(exc) == exc \in {"KeyError"}

\* `except Exception`: the exceptions the handler catches.
Caught(exc) == exc \in {"KeyError", "IntegrityError"}

CreateOutcome(mapper_info, table, id) ==
    LET t == TryCreate(mapper_info, table, id)
    IN  IF t = "saved" THEN ReturnedMapper(id)
        ELSE IF t = "none" \/ Caught(t) THEN BadRequestResponse
        ELSE Raised(t)

\* Line 84: the exception the handler logs.
CreateLogged(mapper_info, table, id) ==
    LET t == TryCreate(mapper_info, table, id)
    IN  IF t \notin {"saved", "none"} /\ Caught(t) THEN t ELSE NULL

create_from_dict(mapper_info) ==
    LET id == Len(rows) + 1
    IN  /\ Len(rows) < MaxRows
        /\ ret' = CreateOutcome(mapper_info, Table, id)
        /\ logged' = CreateLogged(mapper_info, Table, id)
        /\ rows' = IF TryCreate(mapper_info, Table, id) = "saved"
                   THEN Append(rows, NewMapper(mapper_info, id))
                   ELSE rows

\* ------------------------------------------------------------ update 91-111
\* The allow-list of line 94-108 restricted to the columns the model keeps.
UpdateColumns == {"form_id", "form_name", "form_type", "process_key", "status"}

\* BaseModel.update_from_dict(columns, values): each listed column that
\* values carries is set to the value carried.
update_from_dict(row, columns, values) ==
    [c \in DOMAIN row |->
        IF c \in columns /\ c \in DOMAIN values THEN values[c] ELSE row[c]]

update(i, mapper_info) ==
    LET new == update_from_dict(rows[i], UpdateColumns, mapper_info)
    IN  IF IntegrityError(new, Table \ {i})
        THEN /\ rows' = rows
             /\ ret' = Raised("IntegrityError")
             /\ logged' = NULL
        ELSE /\ rows' = [rows EXCEPT ![i] = new]
             /\ ret' = ReturnedNone
             /\ logged' = NULL

\* ----------------------------------------------------- mark_inactive 113-117
mark_inactive(i) ==
    /\ rows' = [rows EXCEPT ![i].status = INACTIVE, ![i].deleted = TRUE]
    /\ ret' = ReturnedNone
    /\ logged' = NULL

\* An unpublish that flags the row deleted, as mark_inactive does.
mark_unpublished_deleting(i) ==
    /\ rows' = [rows EXCEPT ![i].status = INACTIVE, ![i].deleted = TRUE]
    /\ ret' = ReturnedNone
    /\ logged' = NULL

\* -------------------------------------------------- mark_unpublished 119-122
mark_unpublished(i) ==
    /\ rows' = [rows EXCEPT ![i].status = INACTIVE]
    /\ ret' = ReturnedNone
    /\ logged' = NULL

\* ================================================================ reads
\* The ambient user context's tenant_key (the user_context decorator), None
\* for a caller without a tenant.
TenantContexts == TenantKeys \cup {NULL}

\* An optional argument or result: <<>> is None, <<v>> is the value v.
None == <<>>
Some(n) == <<n>>

\* Python truthiness of a filter value.
Truthy(v) == v \notin {NULL, ""}

\* The lower-cased characters of the strings the model uses.
Letters(s) ==
    CASE s = "Ab" -> <<"a", "b">>
      [] s = "B" -> <<"b">>
      [] s = "x" -> <<"x">>
      [] OTHER -> <<>>

\* SQL `column ILIKE '%value%'`.
ilike(column, value) ==
    LET c == Letters(column)
        v == Letters(value)
    IN  \E k \in 0..(Len(c) - Len(v)) : SubSeq(c, k + 1, k + Len(v)) = v

\* formsflow_api_utils FILTER_MAPS: logical filter name -> column and operator.
FILTER_MAPS ==
    [form_name |-> [field |-> "form_name", operator |-> "ilike"]]

\* BaseModel.create_filter_condition: the predicate on a row.
create_filter_condition(row, column_name, operator, value) ==
    IF operator = "ilike" THEN ilike(row[column_name], value)
    ELSE row[column_name] = value

\* filter_conditions (137-152): falsy values are skipped; no active filter
\* leaves cls.query.
filter_conditions(filters) ==
    {i \in Table :
        \A key \in DOMAIN filters :
            Truthy(filters[key]) =>
                create_filter_condition(rows[i], FILTER_MAPS[key].field,
                                        FILTER_MAPS[key].operator, filters[key])}

\* An access filter that forgets the tenant check.
access_filter_any_tenant(query, tenant_key) == {i \in query : rows[i].status = ACTIVE}

\* access_filter (154-167)
access_filter(query, tenant_key) ==
    LET active == {i \in query : rows[i].status = ACTIVE}
    IN  IF tenant_key # NULL
        THEN {i \in active : rows[i].tenant = tenant_key}
        ELSE active

\* A tenant check that lets the rows without a tenant through as well.
tenant_authorization_or_null(query, tenant_key) ==
    IF tenant_key # NULL
    THEN {i \in query : rows[i].tenant = tenant_key \/ rows[i].tenant = NULL}
    ELSE query

\* tenant_authorization (360-371)
tenant_authorization(query, tenant_key) ==
    IF tenant_key # NULL
    THEN {i \in query : rows[i].tenant = tenant_key}
    ELSE query

SetMax(S) == CHOOSE m \in S : \A x \in S : x <= m

\* A latest-row query that takes each lineage's row of the highest version
\* (the earliest of them) in place of the row of the greatest id.
get_latest_form_mapper_ids_by_version ==
    {[id |-> LET L == {x \in Table : rows[x].parent_form_id = p}
                 top == SetMax({rows[x].version : x \in L})
             IN  rows[CHOOSE i \in L :
                        /\ rows[i].version = top
                        /\ \A x \in L : rows[x].version = top => i <= x].id,
      parent_form_id |-> p] : p \in {rows[i].parent_form_id : i \in Table}}

\* get_latest_form_mapper_ids (169-183): max(id) grouped by parent_form_id.
get_latest_form_mapper_ids ==
    {[id |-> SetMax({rows[i].id : i \in {x \in Table : rows[x].parent_form_id = p}}),
      parent_form_id |-> p] : p \in {rows[i].parent_form_id : i \in Table}}

\* validate_sort_order_and_order_by: the pair when both are allowed values,
\* else nothing to sort by.
validate_sort_order_and_order_by(sort_by, sort_order) ==
    <<IF sort_by \in {"id"} THEN sort_by ELSE NULL,
      IF sort_order \in {"asc", "desc"} THEN sort_order ELSE NULL>>

\* The rows of query S by ascending id.
AscendingById(S) ==
    [k \in 1..Cardinality(S) |->
        CHOOSE i \in S : Cardinality({x \in S : rows[x].id < rows[i].id}) = k - 1]

Reverse(q) == [k \in 1..Len(q) |-> q[Len(q) + 1 - k]]

RowOrders(S) ==
    {f \in [1..Cardinality(S) -> S] : \A i, j \in DOMAIN f : i # j => f[i] # f[j]}

\* The orders the database may return query S in: ORDER BY id when the
\* validated sort is set (218-219), any order without ORDER BY.
Orderings(S, sort_by, sort_order) ==
    LET v == validate_sort_order_and_order_by(sort_by, sort_order)
    IN  IF v[1] # NULL /\ v[2] # NULL
        THEN {IF v[2] = "asc" THEN AscendingById(S) ELSE Reverse(AscendingById(S))}
        ELSE RowOrders(S)

\* The page size paginate falls back to.
DefaultPerPage == 20

\* Query.paginate(page, per_page, error_out=False) of flask_sqlalchemy on the
\* ordered query q: page None is 1 and per_page None the default; a page
\* below 1 becomes 1 and a negative per_page the default; a per_page of 0
\* is the default in the 3.x releases and LIMIT 0 in the 2.x ones, so both
\* pages are possible; items are LIMIT per_page OFFSET (page - 1) * per_page.
paginate(q, page, per_page) ==
    LET p0 == IF page = None THEN 1 ELSE page[1]
        p == IF p0 < 1 THEN 1 ELSE p0
        sizes == IF per_page = None THEN {DefaultPerPage}
                 ELSE IF per_page[1] < 0 THEN {DefaultPerPage}
                 ELSE IF per_page[1] = 0 THEN {0, DefaultPerPage}
                 ELSE {per_page[1]}
    IN  {SubSeq(q, (p - 1) * pp + 1, Min((p - 1) * pp + pp, Len(q))) : pp \in sizes}

\* with_entities: the listed columns of a row.
with_entities(r, columns) == [c \in columns |-> r[c]]

\* A listing that counts the rows of the returned page in place of the rows
\* selected.
Page_counting_the_page(query, columns, page_number, limit, sort_by, sort_order) ==
    LET per_page == IF limit = None THEN Some(Cardinality(query)) ELSE limit
        Items(page) == [k \in DOMAIN page |-> with_entities(rows[page[k]], columns)]
    IN  {[items |-> Items(page), total_count |-> Len(page)] :
            page \in UNION {paginate(o, page_number, per_page) :
                                o \in Orderings(query, sort_by, sort_order)}}

\* Lines 221-236, 263-274, 295-304: count, project, paginate.  The result
\* is the set of (items, total_count) pairs the database may give.
Page(query, columns, page_number, limit, sort_by, sort_order) ==
    LET total_count == Cardinality(query)
        per_page == IF limit = None THEN Some(total_count) ELSE limit
        Items(page) == [k \in DOMAIN page |-> with_entities(rows[page[k]], columns)]
    IN  {[items |-> Items(page), total_count |-> total_count] :
            page \in UNION {paginate(o, page_number, per_page) :
                                o \in Orderings(query, sort_by, sort_order)}}

\* A find_all_forms selection that skips the is_active filter.
find_all_forms_query_any_status(tenant_key, form_ids, is_active, form_type, filters) ==
    LET filtered_form_ids ==
            {d.id : d \in {x \in get_latest_form_mapper_ids :
                                x.parent_form_id \in form_ids}}
        q1 == {i \in filter_conditions(filters) :
                    rows[i].deleted = FALSE /\ rows[i].id \in filtered_form_ids}
        q2 == IF form_type # <<>>
              THEN {i \in q1 : \E k \in DOMAIN form_type :
                                    rows[i].form_type = form_type[k]}
              ELSE q1
    IN  tenant_authorization(q2, tenant_key)

\* The rows find_all_forms selects (199-216).
find_all_forms_query(tenant_key, form_ids, is_active, form_type, filters) ==
    LET filtered_form_ids ==
            {d.id : d \in {x \in get_latest_form_mapper_ids :
                                x.parent_form_id \in form_ids}}
        q1 == {i \in filter_conditions(filters) :
                    rows[i].deleted = FALSE /\ rows[i].id \in filtered_form_ids}
        q2 == IF form_type # <<>>
              THEN {i \in q1 : \E k \in DOMAIN form_type :
                                    rows[i].form_type = form_type[k]}
              ELSE q1
        q3 == IF is_active # None
              THEN {i \in q2 :
                        rows[i].status = (IF is_active[1] THEN ACTIVE ELSE INACTIVE)}
              ELSE q2
    IN  tenant_authorization(q3, tenant_key)

\* find_all_forms (185-236)
find_all_forms(tenant_key, page_number, limit, sort_by, sort_order, form_ids, is_active, form_type, filters) ==
    Page(find_all_forms_query(tenant_key, form_ids, is_active, form_type, filters),
         {"id", "process_key", "form_id", "form_name", "status", "form_type"},
         page_number, limit, sort_by, sort_order)

\* The rows find_all_active_by_formid selects (250-258).
find_all_active_by_formid_query(tenant_key, form_ids, filters) ==
    LET filtered_form_ids ==
            {d.id : d \in {x \in get_latest_form_mapper_ids :
                                x.parent_form_id \in form_ids}}
        q1 == {i \in filter_conditions(filters) : rows[i].id \in filtered_form_ids}
    IN  access_filter(q1, tenant_key)

\* find_all_active_by_formid (238-274)
find_all_active_by_formid(tenant_key, page_number, limit, sort_by, sort_order, form_ids, filters) ==
    Page(find_all_active_by_formid_query(tenant_key, form_ids, filters),
         {"id", "process_key", "form_id", "form_name"},
         page_number, limit, sort_by, sort_order)

\* The rows find_all_active selects (287-290).
find_all_active_query(tenant_key, process_key, filters) ==
    LET q0 == filter_conditions(filters)
        q1 == IF process_key # None
              THEN {i \in q0 : rows[i].process_key \in process_key[1]}
              ELSE q0
    IN  access_filter(q1, tenant_key)

\* find_all_active (276-304)
find_all_active(tenant_key, page_number, limit, sort_by, sort_order, process_key, filters) ==
    Page(find_all_active_query(tenant_key, process_key, filters),
         {"id", "process_key", "form_id", "form_name"},
         page_number, limit, sort_by, sort_order)

\* find_all (124-135): every row by descending id; page_number 0 is all.
find_all(page_number, limit) ==
    LET q == Reverse(AscendingById(Table))
        pages == IF page_number = Some(0) THEN {q} ELSE paginate(q, page_number, limit)
    IN  {[k \in DOMAIN page |-> rows[page[k]]] : page \in pages}

\* find_all_count (306-311)
find_all_count == Cardinality({i \in Table : rows[i].status = ACTIVE})

\* query.first(): the results it may give, Some(row) for a row of the query
\* and None when the query is empty.
first(query) == IF query = {} THEN {None} ELSE {Some(rows[i]) : i \in query}

\* find_form_by_id_active_status (313-321)
find_form_by_id_active_status(form_process_mapper_id) ==
    first({i \in Table :
            rows[i].id = form_process_mapper_id /\ rows[i].status = ACTIVE})

\* find_form_by_id (323-326)
find_form_by_id(form_process_mapper_id) ==
    first({i \in Table : rows[i].id = form_process_mapper_id})

\* find_form_by_form_id (328-338): ORDER BY version DESC LIMIT 1; rows of
\* equal version come in either order.
find_form_by_form_id(form_id) ==
    LET q == {i \in Table : rows[i].form_id = form_id}
    IN  first({i \in q : \A x \in q : rows[x].version <= rows[i].version})

\* find_mapper_by_form_id_and_version (340-358): `cls.tenant == tenant_key`
\* is `tenant IS NULL` for a None tenant_key.
find_mapper_by_form_id_and_version(tenant_key, form_id, version) ==
    first({i \in Table :
            /\ rows[i].form_id = form_id
            /\ rows[i].version = version
            /\ rows[i].tenant = tenant_key})

\* ====================================================== the calls made
\* A well-formed field bag.
Info(form_id, parent_form_id, version, tenant) ==
    [form_id |-> form_id, form_name |-> FormName, form_type |-> FormType,
     parent_form_id |-> parent_form_id, created_by |-> "user",
     status |-> ACTIVE, tenant |-> tenant, version |-> version]

BaseInfo == Info("F1", "P1", 1, "T1")

\* The malformed bags: each key missing in turn (the optional ones too), a
\* None in each NOT NULL column, and the empty bag.
MalformedInfos ==
    {Drop(BaseInfo, k) : k \in DOMAIN BaseInfo}
    \cup {[BaseInfo EXCEPT ![c] = NULL] : c \in NotNullColumns}
    \cup {[k \in {} |-> NULL]}

\* The bags of the mutation behaviours: one form in every version, with and
\* without a tenant, and a second form whose form_id an update can change
\* into the first's.
CreateInfos ==
    {Info("F1", "P1", v, t) : v \in Versions, t \in {NULL, "T1"}}
    \cup {Info("F2", "P1", 1, "T1")}
    \cup MalformedInfos

\* The patches: a status, a form_id, and keys outside the allow-list.
UpdateInfos ==
    [status : StatusValues]
    \cup [form_id : {"F1"}]
    \cup [tenant : TenantKeys, deleted : {FALSE}]

Next ==
    \/ \E mapper_info \in CreateInfos : create_from_dict(mapper_info)
    \/ \E i \in 1..Len(rows) : \E mapper_info \in UpdateInfos : update(i, mapper_info)
    \/ \E i \in 1..Len(rows) : mark_inactive(i)
    \/ \E i \in 1..Len(rows) : mark_unpublished(i)

Spec == Init /\ [][Next]_vars

\* The bags of the query behaviours: a lineage with a row of no tenant and
\* two versions of one tenant, and a second lineage of another tenant.
QueryCreateInfos ==
    {Info("F1", "P1", 1, NULL), Info("F1", "P1", 1, "T1"),
     Info("F1", "P1", 2, "T1"), Info("F1", "P2", 1, "T2")}

QueryUpdateInfos ==
    [status : StatusValues]
    \cup [tenant : TenantKeys, deleted : {FALSE}]

NextQuery ==
    \/ \E mapper_info \in QueryCreateInfos : create_from_dict(mapper_info)
    \/ \E i \in 1..Len(rows) : \E mapper_info \in QueryUpdateInfos : update(i, mapper_info)
    \/ \E i \in 1..Len(rows) : mark_inactive(i)
    \/ \E i \in 1..Len(rows) : mark_unpublished(i)

SpecQuery == Init /\ [][NextQuery]_vars

\* ------------------------------------------------ the arguments of the reads
PageArgs == {None} \cup {Some(n) : n \in 1..MaxPage}
LimitArgs == {None} \cup {Some(n) : n \in 0..MaxLimit}
Unsorted == <<NULL, NULL>>
SortArgs == {Unsorted, <<"id", "asc">>, <<"id", "desc">>}
FormIdsArgs == {{}, {"P1"}, ParentIds}
IsActiveArgs == {None, Some(TRUE), Some(FALSE)}
FormTypeArgs == {<<>>, <<FormType>>, <<"resource">>}
ProcessKeyArgs == {None, Some({DEFAULT_PROCESS_KEY}), Some({"other"})}
NoFilters == [k \in {} |-> NULL]
FilterArgs == {NoFilters} \cup [form_name : {"", "B", "x"}]

ById == <<"id", "desc">>

\* <<page_number, limit, sort>>: every page and limit of a listing sorted by
\* id, and the other sorts of a one-row page and of the unlimited page.
PageCalls ==
    {<<pg, lim, ById>> : pg \in PageArgs, lim \in LimitArgs}
    \cup {<<None, lim, srt>> : lim \in {None, Some(1)}, srt \in SortArgs}

\* The paging tried with every selection of rows.
PageCore == <<None, None, ById>>

\* <<form_ids, is_active, form_type, filters>> of find_all_forms: every
\* whitelist with every is_active, and each form_type and filter with the
\* whole whitelist.
FormsSelections ==
    {<<fids, ia, <<>>, NoFilters>> : fids \in FormIdsArgs, ia \in IsActiveArgs}
    \cup {<<ParentIds, ia, ft, NoFilters>> : ia \in {None, Some(TRUE)}, ft \in FormTypeArgs}
    \cup {<<ParentIds, ia, <<>>, flt>> : ia \in {None, Some(TRUE)}, flt \in FilterArgs}

\* <<form_ids, filters>> of find_all_active_by_formid.
ByFormidSelections ==
    {<<fids, NoFilters>> : fids \in FormIdsArgs}
    \cup {<<ParentIds, flt>> : flt \in FilterArgs}

\* <<process_key, filters>> of find_all_active.
ActiveSelections ==
    {<<pk, NoFilters>> : pk \in ProcessKeyArgs}
    \cup {<<None, flt>> : flt \in FilterArgs}

\* The calls, <<selection, paging>>: every selection with the core paging
\* and the widest selections with every paging.
Calls(selections, widest) ==
    (selections \X {PageCore}) \cup (widest \X PageCalls)

FormsCalls ==
    Calls(FormsSelections,
          {<<ParentIds, ia, <<>>, NoFilters>> : ia \in {None, Some(TRUE)}})
ByFormidCalls == Calls(ByFormidSelections, {<<ParentIds, NoFilters>>})
ActiveCalls == Calls(ActiveSelections, {<<None, NoFilters>>})

FormsCall(tk, c) ==
    find_all_forms(tk, c[2][1], c[2][2], c[2][3][1], c[2][3][2],
                   c[1][1], c[1][2], c[1][3], c[1][4])

ByFormidCall(tk, c) ==
    find_all_active_by_formid(tk, c[2][1], c[2][2], c[2][3][1], c[2][3][2],
                              c[1][1], c[1][2])

ActiveCall(tk, c) ==
    find_all_active(tk, c[2][1], c[2][2], c[2][3][1], c[2][3][2],
                    c[1][1], c[1][2])

\* The calls of find_all_forms with is_active = true.
ActiveFormsCalls == {c \in FormsCalls : c[1][2] = Some(TRUE)}

\* The ids of the rows a listing result carries.
ItemIds(out) == {out.items[k].id : k \in DOMAIN out.items}

\* P holds of every row returned by the active-only listings to tenant
\* context tk: find_all_forms with is_active = true, find_all_active_by_formid
\* and find_all_active.
ActiveOnlyListingsReturn(tk, P(_)) ==
    /\ \A c \in ActiveFormsCalls : \A out \in FormsCall(tk, c) :
            \A i \in ItemIds(out) : P(i)
    /\ \A c \in ByFormidCalls : \A out \in ByFormidCall(tk, c) :
            \A i \in ItemIds(out) : P(i)
    /\ \A c \in ActiveCalls : \A out \in ActiveCall(tk, c) :
            \A i \in ItemIds(out) : P(i)

\* P holds of every row returned by the three listings to tenant context tk.
ListingsReturn(tk, P(_)) ==
    /\ ActiveOnlyListingsReturn(tk, P)
    /\ \A c \in FormsCalls \ ActiveFormsCalls :
            \A out \in FormsCall(tk, c) : \A i \in ItemIds(out) : P(i)

\* ================================================ create_from_dict claims
\* Two rows with the same (form_id, version, tenant), a null tenant included.
SameTriple(r, s) ==
    r.form_id = s.form_id /\ r.version = s.version /\ r.tenant = s.tenant

\* The row a well-formed bag asks for.
Asked(mapper_info) == NewMapper(mapper_info, 0)

WellFormed(mapper_info) ==
    /\ RequiredKeys \subseteq DOMAIN mapper_info
    /\ \A c \in NotNullColumns : mapper_info[c] # NULL

\* C1: no two stored rows share (form_id, version, tenant), null tenants
\* included.
C1_TripleUnique ==
    \A i, j \in 1..Len(rows) : i # j => ~SameTriple(rows[i], rows[j])

\* C4: a deleted row is never ACTIVE (mark_inactive cannot be undone by
\* update, mark_inactive or mark_unpublished).
C4_DeletedNeverActive ==
    \A i \in 1..Len(rows) : rows[i].deleted => rows[i].status # ACTIVE

\* C7: create_from_dict lets no exception out; on the empty bag, a missing
\* required key or a uniqueness violation it returns the one generic error
\* response and leaves the stored rows as they were; and whenever it returns
\* that response no row was added.
C7_CreateNeverPropagates ==
    [][\A mapper_info \in CreateInfos :
        create_from_dict(mapper_info) =>
            /\ ret'.kind # "raised"
            /\ ( \/ DOMAIN mapper_info = {}
                 \/ ~(RequiredKeys \subseteq DOMAIN mapper_info)
                 \/ /\ WellFormed(mapper_info)
                    /\ Asked(mapper_info).tenant # NULL
                    /\ \E i \in Table : SameTriple(rows[i], Asked(mapper_info)) )
               => (ret' = BadRequestResponse /\ rows' = rows)
            /\ ret'.kind # "mapper" => (ret' = BadRequestResponse /\ rows' = rows)
            /\ ret'.kind = "mapper" =>
                    /\ Len(rows') = Len(rows) + 1
                    /\ SubSeq(rows', 1, Len(rows)) = rows
      ]_vars

\* C7's case: a create that failed on the uniqueness constraint, with rows
\* stored, returned the generic response.
C7_Witness ==
    /\ ret = BadRequestResponse
    /\ logged = "IntegrityError"
    /\ Len(rows) >= 1

\* ============================================================ read claims
\* The rows of lineage p.
Lineage(p) == {i \in Table : rows[i].parent_form_id = p}

\* Row i has the greatest id of its lineage.
IsLatest(i) == \A x \in Lineage(rows[i].parent_form_id) : x <= i

\* C10: get_latest_form_mapper_ids has exactly one entry for each
\* parent_form_id in the table and none for any other, and the entry's id is
\* the greatest id of the lineage's rows, whatever their tenant, status,
\* deleted flag and version.
C10_LatestIsMaxId ==
    \A p \in ParentIds :
        LET entries == {e \in get_latest_form_mapper_ids : e.parent_form_id = p}
        IN  IF Lineage(p) = {}
            THEN entries = {}
            ELSE /\ Cardinality(entries) = 1
                 /\ \A e \in entries :
                        /\ \E i \in Lineage(p) : rows[i].id = e.id
                        /\ \A i \in Lineage(p) : rows[i].id <= e.id

\* C10's case: a lineage of two rows whose later row has the lower version
\* and is deleted; the one entry is the later row.
C10_Witness ==
    /\ Len(rows) = 2
    /\ rows[1].parent_form_id = "P1" /\ rows[1].version = 2
    /\ rows[2].parent_form_id = "P1" /\ rows[2].version = 1 /\ rows[2].deleted
    /\ get_latest_form_mapper_ids = {[id |-> 2, parent_form_id |-> "P1"]}

\* C9: every row find_all_forms returns with is_active = true is ACTIVE, not
\* deleted, of a lineage in form_ids and the latest row of its lineage, and no
\* two returned rows are of one lineage.
C9_ActiveFormsListing ==
    \A tk \in TenantContexts : \A c \in ActiveFormsCalls :
        \A out \in FormsCall(tk, c) :
            /\ \A i \in ItemIds(out) :
                /\ RowById(i).status = ACTIVE
                /\ RowById(i).deleted = FALSE
                /\ RowById(i).parent_form_id \in c[1][1]
                /\ IsLatest(i)
            /\ \A k1, k2 \in DOMAIN out.items :
                    k1 # k2 =>
                        RowById(out.items[k1].id).parent_form_id
                            # RowById(out.items[k2].id).parent_form_id

\* C9's case: two ACTIVE rows of lineage P1, and the listing for P1 returns
\* the later one alone.
C9_Witness ==
    /\ Len(rows) = 2
    /\ \A i \in 1..2 :
            rows[i].status = ACTIVE /\ ~rows[i].deleted /\ rows[i].parent_form_id = "P1"
    /\ \E out \in find_all_forms(NULL, None, None, NULL, NULL, {"P1"},
                                 Some(TRUE), <<>>, NoFilters) :
            ItemIds(out) = {2}

\* --------------------------------------------------------- tenant isolation
\* Row r belongs to a tenant other than tk.
Foreign(r, tk) == r.tenant # NULL /\ r.tenant # tk

\* The results of find_mapper_by_form_id_and_version over its arguments.
MapperLookups(tk) ==
    UNION {find_mapper_by_form_id_and_version(tk, f, v) : f \in FormIds, v \in Versions}

\* The rows the point lookups without a tenant argument may return.
PointLookups ==
    UNION ( {find_form_by_id(i) : i \in 1..MaxRows}
            \cup {find_form_by_id_active_status(i) : i \in 1..MaxRows}
            \cup {find_form_by_form_id(f) : f \in FormIds} )

\* The tenant-scoped reads return no row of another tenant to tenant tk.
ScopedReadsIsolated(tk) ==
    /\ LET NotForeign(i) == ~Foreign(RowById(i), tk)
       IN  ListingsReturn(tk, NotForeign)
    /\ \A res \in MapperLookups(tk) : res # None => ~Foreign(res[1], tk)

\* C3 as claimed: under a non-null tenant_key no read operation returns (or
\* counts) a row whose tenant is another non-null value.
C3_AllReadsIsolated ==
    \A tk \in TenantKeys :
        /\ ScopedReadsIsolated(tk)
        /\ \A res \in PointLookups : res # None => ~Foreign(res[1], tk)
        /\ \A pg \in PageArgs \cup {Some(0)}, lim \in LimitArgs :
                \A res \in find_all(pg, lim) :
                    \A k \in DOMAIN res : ~Foreign(res[k], tk)
        /\ find_all_count =
                Cardinality({i \in Table : rows[i].status = ACTIVE /\ ~Foreign(rows[i], tk)})

\* C3 as amended: under a non-null tenant_key the tenant-scoped reads
\* (find_all_forms, find_all_active_by_formid, find_all_active,
\* find_mapper_by_form_id_and_version) return no row whose tenant is another
\* non-null value.
C3_ScopedReadsIsolated ==
    \A tk \in TenantKeys : ScopedReadsIsolated(tk)

\* C3's case: ACTIVE rows of T1 and of T2 with one form_id and version;
\* T1's listing of active mappers returns T1's row alone and T1's lookup of
\* that form_id and version returns T1's row, not T2's.
C3_Witness ==
    /\ Len(rows) = 2
    /\ rows[1].tenant = "T1" /\ rows[2].tenant = "T2"
    /\ \A i \in 1..2 : rows[i].status = ACTIVE /\ ~rows[i].deleted
    /\ rows[1].form_id = rows[2].form_id /\ rows[1].version = rows[2].version
    /\ \A out \in find_all_active("T1", None, None, NULL, NULL, None, NoFilters) :
            ItemIds(out) = {1}
    /\ find_mapper_by_form_id_and_version("T1", rows[2].form_id, rows[2].version)
            = {Some(rows[1])}

\* --------------------------------------------------------------- pagination
\* The number of rows each call of a listing selects.
FormsCount(tk, c) ==
    Cardinality(find_all_forms_query(tk, c[1][1], c[1][2], c[1][3], c[1][4]))

ByFormidCount(tk, c) ==
    Cardinality(find_all_active_by_formid_query(tk, c[1][1], c[1][2]))

ActiveCount(tk, c) ==
    Cardinality(find_all_active_query(tk, c[1][1], c[1][2]))

\* Every result of every listing call satisfies P(out, count, page, limit).
AllListings(P(_, _, _, _)) ==
    \A tk \in TenantContexts :
        /\ \A c \in FormsCalls :
                \A out \in FormsCall(tk, c) :
                    P(out, FormsCount(tk, c), c[2][1], c[2][2])
        /\ \A c \in ByFormidCalls :
                \A out \in ByFormidCall(tk, c) :
                    P(out, ByFormidCount(tk, c), c[2][1], c[2][2])
        /\ \A c \in ActiveCalls :
                \A out \in ActiveCall(tk, c) :
                    P(out, ActiveCount(tk, c), c[2][1], c[2][2])

PagedAsClaimed(out, count, page_number, limit) ==
    /\ out.total_count = count
    /\ limit # None => Len(out.items) <= limit[1]
    /\ limit = None => Len(out.items) = out.total_count

PagedAsAmended(out, count, page_number, limit) ==
    /\ out.total_count = count
    /\ (limit # None /\ limit[1] >= 1) => Len(out.items) <= limit[1]
    /\ (limit # None /\ limit[1] < 1) => Len(out.items) <= DefaultPerPage
    /\ (limit = None /\ (page_number = None \/ page_number[1] <= 1))
            => Len(out.items) = out.total_count

\* C5 as claimed: total_count is the number of rows selected whatever the
\* page and limit; a limit L gives at most L items; no limit gives all the
\* selected rows.
C5_PaginationAsClaimed == AllListings(PagedAsClaimed)

\* C5 as amended: total_count is the number of rows selected whatever the
\* page and limit; a limit L >= 1 gives at most L items and a limit below 1
\* at most the default page size; no limit, on the first page (page_number
\* None or at most 1), gives all the selected rows.
C5_Pagination == AllListings(PagedAsAmended)

\* C5's case: two rows selected; a limit of 1 returns one of them and counts
\* two, and no limit returns both.
C5_Witness ==
    /\ \E out \in find_all_active(NULL, Some(1), Some(1), NULL, NULL, None, NoFilters) :
            Len(out.items) = 1 /\ out.total_count = 2
    /\ \E out \in find_all_active(NULL, None, None, NULL, NULL, None, NoFilters) :
            Len(out.items) = 2 /\ out.total_count = 2

\* ------------------------------------------------------------ null tenants
\* Every null-tenant row that meets the other predicates of a tenant-scoped
\* read is returned to tenant context tk (for a listing: in the one page of
\* a call without limit).
NullTenantRowsReturned(tk) ==
    /\ \A sel \in FormsSelections :
            \A i \in find_all_forms_query(NULL, sel[1], sel[2], sel[3], sel[4]) :
                rows[i].tenant = NULL =>
                    \A out \in find_all_forms(tk, None, None, NULL, NULL,
                                              sel[1], sel[2], sel[3], sel[4]) :
                        i \in ItemIds(out)
    /\ \A sel \in ByFormidSelections :
            \A i \in find_all_active_by_formid_query(NULL, sel[1], sel[2]) :
                rows[i].tenant = NULL =>
                    \A out \in find_all_active_by_formid(tk, None, None, NULL, NULL,
                                                         sel[1], sel[2]) :
                        i \in ItemIds(out)
    /\ \A sel \in ActiveSelections :
            \A i \in find_all_active_query(NULL, sel[1], sel[2]) :
                rows[i].tenant = NULL =>
                    \A out \in find_all_active(tk, None, None, NULL, NULL,
                                               sel[1], sel[2]) :
                        i \in ItemIds(out)
    /\ \A f \in FormIds, v \in Versions :
            (\E i \in Table :
                rows[i].form_id = f /\ rows[i].version = v /\ rows[i].tenant = NULL)
                => \A res \in find_mapper_by_form_id_and_version(tk, f, v) :
                        res # None /\ res[1].tenant = NULL

\* No null-tenant row is returned to tenant context tk by a tenant-scoped read.
NullTenantRowsHidden(tk) ==
    /\ LET HasTenant(i) == RowById(i).tenant # NULL
       IN  ListingsReturn(tk, HasTenant)
    /\ \A res \in MapperLookups(tk) : res # None => res[1].tenant # NULL

C2_DeletedNeverListed ==
    LET NotDeleted(i) == ~RowById(i).deleted
    IN  \A tk \in TenantContexts : ListingsReturn(tk, NotDeleted)

\* ------------------------------------------------------------- unpublishing
\* Row i is not deleted, is what find_form_by_id returns, is in the one page
\* of find_all_forms without is_active for every tenant context that
\* tenant_authorization lets see it and every whitelist holding its lineage
\* when it is the lineage's latest row, and is in no active-only result.
Unpublished(i) ==
    /\ rows[i].deleted = FALSE
    /\ find_form_by_id(i) = {Some(rows[i])}
    /\ \A tk \in TenantContexts, fids \in FormIdsArgs, srt \in SortArgs :
            ( /\ IsLatest(i)
              /\ rows[i].parent_form_id \in fids
              /\ tk \in {NULL, rows[i].tenant} )
            => \A out \in find_all_forms(tk, None, None, srt[1], srt[2], fids,
                                         None, <<>>, NoFilters) :
                    i \in ItemIds(out)
    /\ LET Other(j) == j # i
       IN  \A tk \in TenantContexts : ActiveOnlyListingsReturn(tk, Other)
    /\ find_form_by_id_active_status(i) = {None}

\* C6: mark_unpublished on an ACTIVE, not deleted row leaves it INACTIVE and
\* not deleted and lowers find_all_count by one; and a row in that state,
\* in every state it is in, is returned by the reads that do not filter on
\* status and by none of the active-only reads.
C6_UnpublishedStaysVisible ==
    /\ [][\A i \in 1..Len(rows) :
            (rows[i].status = ACTIVE /\ ~rows[i].deleted /\ mark_unpublished(i))
                => /\ rows'[i].status = INACTIVE
                   /\ rows'[i].deleted = FALSE
                   /\ find_all_count' = find_all_count - 1
          ]_vars
    /\ [](\A i \in 1..Len(rows) :
            (rows[i].status = INACTIVE /\ ~rows[i].deleted) => Unpublished(i))

\* C6's case: an unpublished row that find_all_forms still lists and
\* find_all_active does not, beside a row that is still ACTIVE.
C6_Witness ==
    /\ Len(rows) = 2
    /\ ret = ReturnedNone
    /\ rows[1].status = ACTIVE /\ ~rows[1].deleted
    /\ rows[2].status = INACTIVE /\ ~rows[2].deleted
    /\ Unpublished(2)
    /\ \E out \in find_all_forms(NULL, None, None, NULL, NULL, ParentIds,
                                 None, <<>>, NoFilters) :
            2 \in ItemIds(out)
    /\ find_all_count = 1

=============================================================================
